---- MODULE Spec2Model ----
(***************************************************************************)
(* Regenbox firmware (firmware.ino): the one-byte serial command loop, the *)
(* three output lines and the rolling voltage average of four channels.    *)
(***************************************************************************)
EXTENDS Integers, Sequences, FiniteSets, TLC

\* ------------------------------------------------------------ opcodes
READ_A0 == 0
READ_V == 1
LED_TOGGLE == 18
LED_0 == 16
LED_1 == 17
PIN_DISCHARGE_0 == 48
PIN_DISCHARGE_1 == 49
PIN_CHARGE_0 == 64
PIN_CHARGE_1 == 65
MODE_IDLE == 80
MODE_CHARGE == 81
MODE_DISCHARGE == 82
READ_A1 == 98
READ_V1 == 99
READ_A2 == 100
READ_V2 == 101
READ_A3 == 102
READ_V3 == 103
PING == 160
STOP_BYTE == 255

\* ------------------------------------------------------------ configuration
PIN_CHARGE == 4
PIN_DISCHARGE == 3
PIN_LED == 13
CAN_REF == 2410
CAN_BITSIZE == 1023
NB_ANALOG_RD == 204
VOLTAGE_HISTORY_NUM == 10
CHARGE_THRESHOLD == 1500

\* unsigned long is 32 bits wide; every sum and product below stays under 2^31 for
\* the inputs drawn here (TLC stops with an error if one does not), so none wraps
\* the largest value analogRead returns (10-bit converter)
AdcMax == CAN_BITSIZE

\* ------------------------------------------------------------ bounds
\* bytes the scripted host leaves unread in the receive buffer
MaxRx == 2
\* averaged reads the host of Spec requests in one run
MaxReads == 1
\* averaged reads the host of SpecAvg requests in one run
MaxAvgReads == 11
\* of which reads of channel 1
MaxOther == 1
\* commands the host of SpecScript sends in one run
MaxScript == 3
\* position at which a sample sequence switches from one level to another
SplitAt == 100
\* a value the uninitialised accumulator of getVoltage may hold besides 0
Junk == 1000001

\* ------------------------------------------------------------ input sets
Channels == 0..3
Slots == 0..(VOLTAGE_HISTORY_NUM - 1)
Pins == {PIN_CHARGE, PIN_DISCHARGE, PIN_LED}

RawOps == <<READ_A0, READ_A1, READ_A2, READ_A3>>
AvgOps == <<READ_V, READ_V1, READ_V2, READ_V3>>
RawOpSet == {RawOps[k + 1] : k \in Channels}
AvgOpSet == {AvgOps[k + 1] : k \in Channels}
ZeroOps == {LED_0, LED_1, PIN_DISCHARGE_0, PIN_DISCHARGE_1, PIN_CHARGE_0,
            PIN_CHARGE_1, MODE_IDLE, MODE_CHARGE, MODE_DISCHARGE, PING}
Opcodes == RawOpSet \cup AvgOpSet \cup ZeroOps \cup {LED_TOGGLE}

\* the channel each read opcode names
OpChannel(op) ==
    CASE op \in {READ_A0, READ_V} -> 0
      [] op \in {READ_A1, READ_V1} -> 1
      [] op \in {READ_A2, READ_V2} -> 2
      [] op \in {READ_A3, READ_V3} -> 3

\* bytes outside the table: 0x02, 0x99 and 0xFF
UnknownBytes == {2, 153, 255}
HostBytes == Opcodes \cup UnknownBytes
\* the bytes of the host of SpecLive: a raw and an averaged read, a led and a mode
\* command, PING and 0xFF
LiveBytes == {READ_A1, READ_V2, LED_TOGGLE, MODE_DISCHARGE, PING, 255}
\* the bytes of the scripted host: led, line and mode commands, a raw and an
\* averaged read, and 0x99
ScriptBytes == {LED_0, LED_1, LED_TOGGLE, PIN_DISCHARGE_0, PIN_DISCHARGE_1,
                PIN_CHARGE_0, PIN_CHARGE_1, MODE_IDLE, MODE_CHARGE, MODE_DISCHARGE,
                READ_A0, READ_V3, 153}

RawValues == {0, AdcMax}
\* the 204 values one averaged read gets from analogRead: a up to position k, b after
SampleSeq(a, b, k) == [i \in 1..NB_ANALOG_RD |-> IF i <= k THEN a ELSE b]
SampleSeqs == {SampleSeq(0, b, k) : b \in RawValues, k \in {0, SplitAt}}
ConstSeq(r) == SampleSeq(r, r, 0)
\* what the uninitialised local `sum` holds when getVoltage starts
UninitValues == {0, Junk}

\* ------------------------------------------------------------ state
VARIABLES
    pin,            \* level driven on each output pin
    gVoltageHist,   \* [channel][slot], scaled millivolts
    gHistCounter,   \* averaged reads made so far, all channels
    rx,             \* serial bytes received and not yet read
    tx,             \* serial bytes written and not yet taken by the host
    pc,             \* position of loop(): "idle", "switch", "sample", "mode2", "stop"
    in,             \* the byte loop() read last
    resp,           \* bytes written since the last Serial.read()
    smp,            \* the analogRead calls since the last Serial.read(): channels, number, sum
    src,            \* the raw values the analog source returns
    avgReads,       \* averaged reads completed, per channel
    budget,         \* averaged reads the host may still request
    trace,          \* host scenario: the state at each Serial.read() and the byte read
    hidx,           \* the history cells the last getVoltage() used: channel, slot written, last slot summed
    loc             \* the locals i and sum of getVoltage() while its sampling loop runs

dvars == <<pin, gVoltageHist, gHistCounter>>
vars == <<pin, gVoltageHist, gHistCounter, rx, tx, pc, in, resp, smp, src,
          avgReads, budget, trace, hidx, loc>>

NoByte == 0 - 1
NoSamples == [chs |-> {}, n |-> 0, sum |-> 0]
NoAccess == [ch |-> NoByte, slot |-> NoByte, last |-> NoByte]
NoLocals == [i |-> NoByte, sum |-> NoByte]

\* ------------------------------------------------------------ pure helpers
RECURSIVE Digits(_)
\* Serial.print(unsigned long): decimal ASCII, most significant digit first
Digits(v) == IF v < 10 THEN <<48 + v>>
             ELSE Append(Digits(v \div 10), 48 + (v % 10))

\* a variant of BoolByte: true is written as the byte with all bits set
BoolByteAllOnes(b) == IF b THEN STOP_BYTE ELSE 0

\* a variant of BoolByte: the state written as the character '0' or '1'
BoolByteAscii(b) == IF b THEN 49 ELSE 48

\* Serial.write(boolean): one raw byte
BoolByte(b) == IF b THEN 1 ELSE 0

RECURSIVE SampleSum(_, _, _)
\* the sum of samples s[lo..hi], split in halves to keep the evaluation shallow
SampleSum(s, lo, hi) ==
    IF lo > hi THEN 0
    ELSE IF lo = hi THEN s[lo]
    ELSE LET mid == (lo + hi) \div 2
         IN  SampleSum(s, lo, mid) + SampleSum(s, mid + 1, hi)

\* the sum and the values of each sample sequence, tabulated once
SeqSum == [s \in SampleSeqs |-> SampleSum(s, 1, NB_ANALOG_RD)]
SeqValues == [s \in SampleSeqs |-> {s[i] : i \in 1..NB_ANALOG_RD}]

\* lines 145-149: for (i = 0; i < NB_ANALOG_RD; i++) sum = sum + getAnalog(j)
SumLoop(sum, s) == sum + SeqSum[s]

\* lines 150-152: the mean of the samples, scaled to millivolts
ScaleSum(sum) == ((sum \div NB_ANALOG_RD) * CAN_REF) \div CAN_BITSIZE

RECURSIVE HistSum(_, _, _, _)
\* the summing loops of computeAvgVoltage: slots i..last of channel j
HistSum(hist, j, i, last) ==
    IF i <= last
        THEN hist[j][i] + HistSum(hist, j, i + 1, last)
        ELSE 0

\* the last index the summing loop of computeAvgVoltage reaches: i <= gHistCounter
\* (line 97) while the counter is under 10, i < VOLTAGE_HISTORY_NUM (line 103) after
avgLoopLast(counter) ==
    IF counter < VOLTAGE_HISTORY_NUM THEN counter ELSE VOLTAGE_HISTORY_NUM - 1

computeAvgVoltage(hist, counter, j) ==
    IF counter < VOLTAGE_HISTORY_NUM
        THEN HistSum(hist, j, 0, avgLoopLast(counter)) \div (counter + 1)
        ELSE HistSum(hist, j, 0, avgLoopLast(counter)) \div VOLTAGE_HISTORY_NUM

\* a variant of histWriteSlot: the counter is used as it is
histWriteSlotNoWrap(counter) == counter

\* line 154: the slot getVoltage writes
histWriteSlot(counter) == counter % VOLTAGE_HISTORY_NUM

\* logical line states: the charge pin is active low
ChargeOn == ~pin[PIN_CHARGE]
DischargeOn == pin[PIN_DISCHARGE]
LedOn == pin[PIN_LED]

\* a variant of setCharge: the pin is driven with the logical value
setChargePlain(b) == [pin EXCEPT ![PIN_CHARGE] = b]

\* digitalWrite arguments of the three setters
setCharge(b) == [pin EXCEPT ![PIN_CHARGE] = ~b]
setDischarge(b) == [pin EXCEPT ![PIN_DISCHARGE] = b]
setLed(b) == [pin EXCEPT ![PIN_LED] = b]

initVoltageHist == [j \in Channels |-> [i \in Slots |-> CHARGE_THRESHOLD]]

\* ------------------------------------------------------------ initial state
\* after setup(): charge off, discharge off, led on, history seeded
Setup ==
    /\ pin = [p \in Pins |-> IF p = PIN_DISCHARGE THEN FALSE ELSE TRUE]
    /\ gVoltageHist = initVoltageHist
    /\ gHistCounter = 0
    /\ rx = <<>>
    /\ tx = <<>>
    /\ pc = "idle"
    /\ in = NoByte
    /\ resp = <<>>
    /\ smp = NoSamples
    /\ avgReads = [j \in Channels |-> 0]
    /\ trace = <<>>
    /\ hidx = NoAccess
    /\ loc = NoLocals

Init == Setup /\ src = RawValues /\ budget = MaxReads

\* ------------------------------------------------------------ loop()
\* Serial.print / Serial.write of a payload
Send(bytes) ==
    /\ tx' = tx \o bytes
    /\ resp' = resp \o bytes

\* a variant of LoopNoInput: a cycle without input writes the terminator
LoopNoInputTalks ==
    /\ pc = "idle"
    /\ rx = <<>>
    /\ Send(<<STOP_BYTE>>)
    /\ UNCHANGED <<dvars, rx, pc, in, smp, src, avgReads, budget, trace, hidx, loc>>

\* lines 194-196: nothing to read
LoopNoInput ==
    /\ pc = "idle"
    /\ rx = <<>>
    /\ UNCHANGED vars

Snapshot == [op |-> Head(rx), pin |-> pin, hist |-> gVoltageHist,
             counter |-> gHistCounter, mark |-> Len(tx)]

\* a variant of LoopRead: the next byte is also read before the terminator is written
LoopReadEager(traced) ==
    /\ pc \in {"idle", "stop"}
    /\ rx # <<>>
    /\ in' = Head(rx)
    /\ rx' = Tail(rx)
    /\ pc' = "switch"
    /\ resp' = <<>>
    /\ smp' = NoSamples
    /\ trace' = IF traced THEN Append(trace, Snapshot) ELSE trace
    /\ hidx' = NoAccess
    /\ UNCHANGED <<dvars, tx, src, avgReads, budget, loc>>

\* line 198: byte in = Serial.read()
LoopRead(traced) ==
    /\ pc = "idle"
    /\ rx # <<>>
    /\ in' = Head(rx)
    /\ rx' = Tail(rx)
    /\ pc' = "switch"
    /\ resp' = <<>>
    /\ smp' = NoSamples
    /\ trace' = IF traced THEN Append(trace, Snapshot) ELSE trace
    /\ hidx' = NoAccess
    /\ UNCHANGED <<dvars, tx, src, avgReads, budget, loc>>

\* a variant of ReadRaw: the sample is taken from the next channel
ReadRawNextChannel(k, v) ==
    /\ pc = "switch"
    /\ in = RawOps[k + 1]
    /\ v \in src
    /\ smp' = [chs |-> smp.chs \cup {(k + 1) % 4}, n |-> smp.n + 1, sum |-> smp.sum + v]
    /\ Send(Digits(v))
    /\ pc' = "stop"
    /\ UNCHANGED <<dvars, rx, in, src, avgReads, budget, trace, hidx, loc>>

\* lines 200-202, 206-208, 212-214, 218-220: sendUint(getAnalog(k))
ReadRaw(k, v) ==
    /\ pc = "switch"
    /\ in = RawOps[k + 1]
    /\ smp' = [chs |-> smp.chs \cup {k}, n |-> smp.n + 1, sum |-> smp.sum + v]
    /\ v \in src
    /\ Send(Digits(v))
    /\ pc' = "stop"
    /\ UNCHANGED <<dvars, rx, in, src, avgReads, budget, trace, hidx, loc>>

\* a variant of getVoltageEnd: the value is written to the slot of every channel
getVoltageEndSpill(j, sum) ==
    LET scaled == ScaleSum(sum)
        slot == histWriteSlot(gHistCounter)
        hist == [c \in Channels |-> [gVoltageHist[c] EXCEPT ![slot] = scaled]]
        counter == gHistCounter + 1
    IN  [hist |-> hist, counter |-> counter, scaled |-> scaled,
         avg |-> computeAvgVoltage(hist, counter, j),
         idx |-> [ch |-> j, slot |-> slot, last |-> avgLoopLast(counter)]]

\* a variant of getVoltageEnd: the counter is incremented before the slot is chosen
getVoltageEndLate(j, sum) ==
    LET scaled == ScaleSum(sum)
        counter == gHistCounter + 1
        slot == histWriteSlot(counter)
        hist == [gVoltageHist EXCEPT ![j][slot] = scaled]
    IN  [hist |-> hist, counter |-> counter, scaled |-> scaled,
         avg |-> computeAvgVoltage(hist, counter, j),
         idx |-> [ch |-> j, slot |-> slot, last |-> avgLoopLast(counter)]]

\* getVoltage(j) from line 150 on, the sampling loop having left sum in the accumulator
getVoltageEnd(j, sum) ==
    LET scaled == ScaleSum(sum)
        slot == histWriteSlot(gHistCounter)
        hist == [gVoltageHist EXCEPT ![j][slot] = scaled]
        counter == gHistCounter + 1
    IN  [hist |-> hist, counter |-> counter, scaled |-> scaled,
         avg |-> computeAvgVoltage(hist, counter, j),
         idx |-> [ch |-> j, slot |-> slot, last |-> avgLoopLast(counter)]]

\* getVoltage(j), lines 143-158, with the samples s and the accumulator starting at sum0
getVoltage(j, s, sum0) == getVoltageEnd(j, SumLoop(sum0, s))

\* lines 203-205, 209-211, 215-217, 221-223: sendUint(getVoltage(j))
ReadAvg(j, s, sum0) ==
    /\ pc = "switch"
    /\ in = AvgOps[j + 1]
    /\ SeqValues[s] \subseteq src
    /\ LET r == getVoltage(j, s, sum0)
       IN  /\ gVoltageHist' = r.hist
           /\ gHistCounter' = r.counter
           /\ Send(Digits(r.avg))
           /\ hidx' = r.idx
    /\ smp' = [chs |-> smp.chs \cup {j}, n |-> smp.n + NB_ANALOG_RD,
               sum |-> smp.sum + SeqSum[s]]
    /\ avgReads' = [avgReads EXCEPT ![j] = @ + 1]
    /\ pc' = "stop"
    /\ UNCHANGED <<pin, rx, in, src, budget, trace, loc>>

\* ---- getVoltage(j) one iteration of its sampling loop at a time
\* lines 144-145: the locals are declared, sum without a value, and i is set to 0
SampleStart(j, sum0) ==
    /\ pc = "switch"
    /\ in = AvgOps[j + 1]
    /\ loc' = [i |-> 0, sum |-> sum0]
    /\ pc' = "sample"
    /\ UNCHANGED <<dvars, rx, tx, in, resp, smp, src, avgReads, budget, trace, hidx>>

\* a variant of SampleStep: i is a signed char, 127 is followed by -128
SampleStepSigned(v) ==
    /\ pc = "sample"
    /\ loc.i < NB_ANALOG_RD
    /\ v \in src
    /\ loc' = [i |-> IF loc.i = 127 THEN 0 - 128 ELSE loc.i + 1, sum |-> loc.sum + v]
    /\ smp' = [chs |-> smp.chs \cup {OpChannel(in)}, n |-> smp.n + 1, sum |-> smp.sum + v]
    /\ UNCHANGED <<dvars, rx, tx, pc, in, resp, src, avgReads, budget, trace, hidx>>

\* lines 145-149: i < NB_ANALOG_RD, sum = sum + getAnalog(j), i++ (i is a byte)
SampleStep(v) ==
    /\ pc = "sample"
    /\ loc.i < NB_ANALOG_RD
    /\ v \in src
    /\ loc' = [i |-> (loc.i + 1) % 256, sum |-> loc.sum + v]
    /\ smp' = [chs |-> smp.chs \cup {OpChannel(in)}, n |-> smp.n + 1, sum |-> smp.sum + v]
    /\ UNCHANGED <<dvars, rx, tx, pc, in, resp, src, avgReads, budget, trace, hidx>>

\* lines 145 and 150-157 and sendUint: the loop is left and the voltage is stored,
\* averaged and printed
SampleEnd ==
    /\ pc = "sample"
    /\ ~(loc.i < NB_ANALOG_RD)
    /\ LET j == OpChannel(in)
           r == getVoltageEnd(j, loc.sum)
       IN  /\ gVoltageHist' = r.hist
           /\ gHistCounter' = r.counter
           /\ Send(Digits(r.avg))
           /\ hidx' = r.idx
           /\ avgReads' = [avgReads EXCEPT ![j] = @ + 1]
    /\ loc' = NoLocals
    /\ pc' = "stop"
    /\ UNCHANGED <<pin, rx, in, smp, src, budget, trace>>

\* lines 225-230: setLed(0), setLed(1)
Led(op, b) ==
    /\ pc = "switch"
    /\ in = op
    /\ pin' = setLed(b)
    /\ pc' = "stop"
    /\ UNCHANGED <<gVoltageHist, gHistCounter, rx, tx, in, resp, smp, src,
                   avgReads, budget, trace, hidx, loc>>

\* a variant of LedToggle: the state read from the pin is reported, not the new one
LedToggleStale ==
    /\ pc = "switch"
    /\ in = LED_TOGGLE
    /\ pin' = setLed(~pin[PIN_LED])
    /\ Send(<<BoolByte(pin[PIN_LED])>>)
    /\ pc' = "stop"
    /\ UNCHANGED <<gVoltageHist, gHistCounter, rx, in, smp, src, avgReads,
                   budget, trace, hidx, loc>>

\* lines 231-233 and 124-128: sendBool(toggleLed())
LedToggle ==
    /\ pc = "switch"
    /\ in = LED_TOGGLE
    /\ LET b == ~pin[PIN_LED]
       IN  /\ pin' = setLed(b)
           /\ Send(<<BoolByte(b)>>)
    /\ pc' = "stop"
    /\ UNCHANGED <<gVoltageHist, gHistCounter, rx, in, smp, src, avgReads,
                   budget, trace, hidx, loc>>

\* lines 235-240: setDischarge(0), setDischarge(1)
PinDischarge(op, b) ==
    /\ pc = "switch"
    /\ in = op
    /\ pin' = setDischarge(b)
    /\ pc' = "stop"
    /\ UNCHANGED <<gVoltageHist, gHistCounter, rx, tx, in, resp, smp, src,
                   avgReads, budget, trace, hidx, loc>>

\* lines 242-247: setCharge(0), setCharge(1)
PinCharge(op, b) ==
    /\ pc = "switch"
    /\ in = op
    /\ pin' = setCharge(b)
    /\ pc' = "stop"
    /\ UNCHANGED <<gVoltageHist, gHistCounter, rx, tx, in, resp, smp, src,
                   avgReads, budget, trace, hidx, loc>>

\* a variant of ModeFirst: the first line write is left out
ModeFirstSkipped ==
    /\ pc = "switch"
    /\ in \in {MODE_IDLE, MODE_CHARGE, MODE_DISCHARGE}
    /\ pc' = "mode2"
    /\ UNCHANGED <<dvars, rx, tx, in, resp, smp, src, avgReads, budget, trace, hidx, loc>>

\* a variant of ModeFirst: MODE_CHARGE and MODE_DISCHARGE enable their line first
ModeFirstEnables ==
    /\ pc = "switch"
    /\ in \in {MODE_IDLE, MODE_CHARGE, MODE_DISCHARGE}
    /\ pin' = CASE in = MODE_IDLE -> setDischarge(FALSE)
                [] in = MODE_CHARGE -> setCharge(TRUE)
                [] in = MODE_DISCHARGE -> setDischarge(TRUE)
    /\ pc' = "mode2"
    /\ UNCHANGED <<gVoltageHist, gHistCounter, rx, tx, in, resp, smp, src,
                   avgReads, budget, trace, hidx, loc>>

\* the first line write of a mode command: lines 250, 254, 258
ModeFirst ==
    /\ pc = "switch"
    /\ in \in {MODE_IDLE, MODE_CHARGE, MODE_DISCHARGE}
    /\ pin' = IF in = MODE_DISCHARGE THEN setCharge(FALSE) ELSE setDischarge(FALSE)
    /\ pc' = "mode2"
    /\ UNCHANGED <<gVoltageHist, gHistCounter, rx, tx, in, resp, smp, src,
                   avgReads, budget, trace, hidx, loc>>

\* the second line write of a mode command: lines 251, 255, 259
ModeSecond ==
    /\ pc = "mode2"
    /\ pin' = CASE in = MODE_IDLE -> setCharge(FALSE)
                [] in = MODE_CHARGE -> setCharge(TRUE)
                [] in = MODE_DISCHARGE -> setDischarge(TRUE)
    /\ pc' = "stop"
    /\ UNCHANGED <<gVoltageHist, gHistCounter, rx, tx, in, resp, smp, src,
                   avgReads, budget, trace, hidx, loc>>

\* lines 261-262
Ping ==
    /\ pc = "switch"
    /\ in = PING
    /\ pc' = "stop"
    /\ UNCHANGED <<dvars, rx, tx, in, resp, smp, src, avgReads, budget, trace, hidx, loc>>

\* a variant of Default: break instead of return
DefaultTalks ==
    /\ pc = "switch"
    /\ in \notin Opcodes
    /\ pc' = "stop"
    /\ UNCHANGED <<dvars, rx, tx, in, resp, smp, src, avgReads, budget, trace, hidx, loc>>

\* lines 263-265: default: return
Default ==
    /\ pc = "switch"
    /\ in \notin Opcodes
    /\ pc' = "idle"
    /\ UNCHANGED <<dvars, rx, tx, in, resp, smp, src, avgReads, budget, trace, hidx, loc>>

\* a variant of WriteStop: loop() returns without the terminator
WriteStopMissing ==
    /\ pc = "stop"
    /\ pc' = "idle"
    /\ UNCHANGED <<dvars, rx, tx, in, resp, smp, src, avgReads, budget, trace, hidx, loc>>

\* line 268: Serial.write(STOP_BYTE)
WriteStop ==
    /\ pc = "stop"
    /\ Send(<<STOP_BYTE>>)
    /\ pc' = "idle"
    /\ UNCHANGED <<dvars, rx, in, smp, src, avgReads, budget, trace, hidx, loc>>

\* ------------------------------------------------------------ the host
\* the host that follows the protocol: it waits until the device has handled the
\* previous byte, takes what the device has written and writes the next byte
HostSend(b) ==
    /\ pc = "idle"
    /\ rx = <<>>
    /\ b \in AvgOpSet => budget > 0
    /\ rx' = Append(rx, b)
    /\ tx' = <<>>
    /\ budget' = IF b \in AvgOpSet THEN budget - 1 ELSE budget
    /\ UNCHANGED <<dvars, pc, in, resp, smp, src, avgReads, trace, hidx, loc>>

\* the scripted host: it writes up to MaxScript bytes, also while the device is
\* busy, and leaves the output in place
HostScript(b) ==
    /\ Len(rx) < MaxRx
    /\ Len(trace) + Len(rx) < MaxScript
    /\ rx' = Append(rx, b)
    /\ UNCHANGED <<dvars, tx, pc, in, resp, smp, src, avgReads, budget, trace, hidx, loc>>

\* the averaging host: it requests an averaged read of channel j
HostAvg(j) ==
    /\ j = 1 => avgReads[1] < MaxOther
    /\ HostSend(AvgOps[j + 1])

Next ==
    \/ LoopNoInput
    \/ LoopRead(FALSE)
    \/ \E k \in Channels, v \in RawValues : ReadRaw(k, v)
    \/ \E j \in Channels, s \in SampleSeqs, sum0 \in UninitValues : ReadAvg(j, s, sum0)
    \/ Led(LED_0, FALSE)
    \/ Led(LED_1, TRUE)
    \/ LedToggle
    \/ PinDischarge(PIN_DISCHARGE_0, FALSE)
    \/ PinDischarge(PIN_DISCHARGE_1, TRUE)
    \/ PinCharge(PIN_CHARGE_0, FALSE)
    \/ PinCharge(PIN_CHARGE_1, TRUE)
    \/ ModeFirst
    \/ ModeSecond
    \/ Ping
    \/ Default
    \/ WriteStop
    \/ \E b \in HostBytes : HostSend(b)

Spec == Init /\ [][Next]_vars

\* ---- the scripted host: every state at a Serial.read() is recorded
InitScript == Setup /\ src = RawValues /\ budget = 0

NextScript ==
    \/ LoopNoInput
    \/ LoopRead(TRUE)
    \/ Led(LED_0, FALSE)
    \/ Led(LED_1, TRUE)
    \/ LedToggle
    \/ PinDischarge(PIN_DISCHARGE_0, FALSE)
    \/ PinDischarge(PIN_DISCHARGE_1, TRUE)
    \/ PinCharge(PIN_CHARGE_0, FALSE)
    \/ PinCharge(PIN_CHARGE_1, TRUE)
    \/ \E v \in RawValues : ReadRaw(0, v)
    \/ \E s \in SampleSeqs, sum0 \in UninitValues : ReadAvg(3, s, sum0)
    \/ ModeFirst
    \/ ModeSecond
    \/ Default
    \/ WriteStop
    \/ \E b \in ScriptBytes : HostScript(b)

SpecScript == InitScript /\ [][NextScript]_vars

\* ---- the averaging host: a constant analog source, averaged reads of channels 0 and
\* 1 and raw reads of channel 0
InitAvg == Setup /\ src \in {{r} : r \in RawValues} /\ budget = MaxAvgReads

NextAvg ==
    \/ LoopNoInput
    \/ LoopRead(FALSE)
    \/ \E j \in {0, 1}, s \in SampleSeqs, sum0 \in UninitValues : ReadAvg(j, s, sum0)
    \/ \E v \in RawValues : ReadRaw(0, v)
    \/ WriteStop
    \/ \E j \in {0, 1} : HostAvg(j)
    \/ HostSend(READ_A0)

SpecAvg == InitAvg /\ [][NextAvg]_vars

\* ---- the sampling loop step by step, and loop() called again and again
InitLive == Setup /\ src \in {{r} : r \in RawValues} /\ budget = MaxReads

\* the steps of the device that change its state
DeviceLive ==
    \/ LoopRead(FALSE)
    \/ \E v \in RawValues : ReadRaw(1, v)
    \/ \E sum0 \in UninitValues : SampleStart(2, sum0)
    \/ \E v \in RawValues : SampleStep(v)
    \/ SampleEnd
    \/ LedToggle
    \/ ModeFirst
    \/ ModeSecond
    \/ Ping
    \/ Default
    \/ WriteStop

NextLive ==
    \/ LoopNoInput
    \/ DeviceLive
    \/ \E b \in LiveBytes : HostSend(b)

\* main() calls loop() for ever, and every call in loop() returns: a step of the
\* device that can be taken is taken
SpecLive == InitLive /\ [][NextLive]_vars /\ WF_vars(DeviceLive)

\* ------------------------------------------------------------ observation helpers
IsSuffix(a, b) == Len(a) <= Len(b) /\ SubSeq(b, Len(b) - Len(a) + 1, Len(b)) = a
Last(q) == q[Len(q)]
Front(q) == SubSeq(q, 1, Len(q) - 1)

IsDigit(c) == c >= 48 /\ c <= 57
RECURSIVE DecValue(_)
\* the number a sequence of ASCII digits denotes
DecValue(q) == IF q = <<>> THEN 0 ELSE 10 * DecValue(Front(q)) + (Last(q) - 48)
\* q is the decimal text of v: digits only, no leading zero
IsDecimalOf(q, v) ==
    /\ Len(q) >= 1
    /\ \A i \in DOMAIN q : IsDigit(q[i])
    /\ Len(q) > 1 => q[1] # 48
    /\ DecValue(q) = v

\* the scripted host's record: the bytes read, and what followed each
Ops == [i \in DOMAIN trace |-> trace[i].op]
Completed(i) == i < Len(trace) \/ pc = "idle"
ActionDone(i) == i < Len(trace) \/ pc \in {"stop", "idle"}
PinAfter(i) == IF i < Len(trace) THEN trace[i + 1].pin ELSE pin
HistAfter(i) == IF i < Len(trace) THEN trace[i + 1].hist ELSE gVoltageHist
CounterAfter(i) == IF i < Len(trace) THEN trace[i + 1].counter ELSE gHistCounter
Response(i) == SubSeq(tx, trace[i].mark + 1,
                      IF i < Len(trace) THEN trace[i + 1].mark ELSE Len(tx))
LineOps == {PIN_DISCHARGE_0, PIN_DISCHARGE_1, PIN_CHARGE_0, PIN_CHARGE_1}

\* ------------------------------------------------------------ claims

\* C1: once loop() has handled a table opcode, what it wrote for that command ends
\* with the terminator 0xFF, holds no other 0xFF, and is the tail of the output.
C1_ResponseTerminated ==
    /\ (pc = "stop") => \A i \in DOMAIN resp : resp[i] # STOP_BYTE
    /\ (pc = "idle" /\ in \in Opcodes) =>
          /\ Len(resp) >= 1
          /\ Last(resp) = STOP_BYTE
          /\ \A i \in 1..(Len(resp) - 1) : resp[i] # STOP_BYTE
          /\ IsSuffix(tx, resp) \/ IsSuffix(resp, tx)
          /\ tx # <<>> => Last(tx) = STOP_BYTE
C1_Witness ==
    /\ pc = "idle"
    /\ in = READ_V3
    /\ Len(resp) >= 5
    /\ tx = resp

\* C2: every step loop() takes for a byte outside the table writes nothing and
\* leaves the pins, the histories and the counter as they were, and the second
\* step returns to idle.
C2_UnknownSilent ==
    [][(pc' # pc /\ in' \notin Opcodes) =>
          /\ UNCHANGED <<pin, gVoltageHist, gHistCounter, tx>>
          /\ resp' = <<>>
          /\ pc = "switch" => pc' = "idle"]_vars
C2_Witness ==
    /\ pc = "idle"
    /\ in = 153
    /\ resp = <<>>
    /\ gHistCounter = 1
    /\ ChargeOn /\ DischargeOn /\ ~LedOn

\* C3: the response to LED_0, LED_1, PIN_DISCHARGE_0/1, PIN_CHARGE_0/1, MODE_* and
\* PING is the two bytes 0x00, 0xFF.
C3_ZeroByteResponse ==
    (pc = "idle" /\ in \in ZeroOps) => resp = <<0, STOP_BYTE>>

\* C4: once the two line writes of a mode command are done, the lines are as the
\* mode says, whatever they were when the command was read.
C4_ModeSetsLines ==
    \A i \in DOMAIN trace :
        ActionDone(i) =>
            LET p == PinAfter(i)
            IN  /\ trace[i].op = MODE_CHARGE => ~p[PIN_DISCHARGE] /\ ~p[PIN_CHARGE]
                /\ trace[i].op = MODE_DISCHARGE => p[PIN_CHARGE] /\ p[PIN_DISCHARGE]
                /\ trace[i].op = MODE_IDLE => p[PIN_CHARGE] /\ ~p[PIN_DISCHARGE]
C4_Witness ==
    \E i \in DOMAIN trace :
        /\ trace[i].op = MODE_CHARGE
        /\ ~trace[i].pin[PIN_CHARGE] /\ trace[i].pin[PIN_DISCHARGE]
        /\ ActionDone(i)

\* C5: as long as no PIN_CHARGE_x or PIN_DISCHARGE_x command has been read, charge
\* and discharge are never enabled together, between the two writes of a mode
\* command included.
C5_ModesExclusive ==
    (\A i \in DOMAIN trace : trace[i].op \notin LineOps) => ~(ChargeOn /\ DischargeOn)
C5_Witness ==
    /\ \A i \in DOMAIN trace : trace[i].op \notin LineOps
    /\ pc = "mode2"
    /\ in = MODE_DISCHARGE
    /\ ~Last(trace).pin[PIN_CHARGE]

\* C6: two LED_TOGGLE commands in a row leave pins, histories and counter as they
\* were; each answers the one byte of the led's new state and the terminator, and
\* the two bytes are 0 and 1 or 1 and 0.
C6_ToggleInvolution ==
    \A i \in DOMAIN trace :
        (i < Len(trace) /\ trace[i].op = LED_TOGGLE /\ trace[i + 1].op = LED_TOGGLE
            /\ Completed(i + 1)) =>
            /\ PinAfter(i + 1) = trace[i].pin
            /\ HistAfter(i + 1) = trace[i].hist
            /\ CounterAfter(i + 1) = trace[i].counter
            /\ Response(i) = <<BoolByte(PinAfter(i)[PIN_LED]), STOP_BYTE>>
            /\ Response(i + 1) = <<BoolByte(PinAfter(i + 1)[PIN_LED]), STOP_BYTE>>
            /\ Response(i)[1] + Response(i + 1)[1] = 1
C6_Witness ==
    /\ Ops = <<LED_0, LED_TOGGLE, LED_TOGGLE>>
    /\ pc = "idle"
    /\ ~LedOn
    /\ tx = <<STOP_BYTE, 1, STOP_BYTE, 0, STOP_BYTE>>

\* C7: from startup (charge off, discharge off, led on) the bytes 0x12, 0x12, 0x99
\* are answered 00 FF, then 01 FF, then nothing.
C7_ToggleScenario ==
    /\ Len(trace) >= 1 =>
          trace[1].pin[PIN_CHARGE] /\ ~trace[1].pin[PIN_DISCHARGE] /\ trace[1].pin[PIN_LED]
    /\ (Ops = <<LED_TOGGLE>> /\ pc = "idle") => tx = <<0, STOP_BYTE>>
    /\ (Ops = <<LED_TOGGLE, LED_TOGGLE>> /\ pc = "idle") => tx = <<0, STOP_BYTE, 1, STOP_BYTE>>
    /\ (Ops = <<LED_TOGGLE, LED_TOGGLE, 153>> /\ pc = "idle") =>
          tx = <<0, STOP_BYTE, 1, STOP_BYTE>>
C7_Witness ==
    /\ Ops = <<LED_TOGGLE, LED_TOGGLE, 153>>
    /\ pc = "idle"
    /\ rx = <<>>
    /\ tx = <<0, STOP_BYTE, 1, STOP_BYTE>>

\* C8: the first averaged read after startup reports the value it has just put in
\* slot 0 of its channel.
C8_FirstAverageIsSample ==
    \A j \in Channels :
        (pc = "stop" /\ in = AvgOps[j + 1] /\ gHistCounter = 1) =>
            IsDecimalOf(resp, gVoltageHist[j][0])

\* C9: with a source that always returns r, every averaged read of a channel from
\* its tenth on reports floor(r * 2410 / 1023).
C9_ConstantConverges ==
    \A j \in Channels, r \in RawValues :
        (src = {r} /\ pc = "stop" /\ in = AvgOps[j + 1]
            /\ avgReads[j] >= VOLTAGE_HISTORY_NUM) =>
            IsDecimalOf(resp, (r * CAN_REF) \div CAN_BITSIZE)

\* C10: a raw read takes one sample, from its own channel, and answers its decimal
\* text; an averaged read samples its own channel only and answers the decimal text
\* of the rolling average of that channel's history.
C10_ReadsOwnChannel ==
    /\ (pc = "stop" /\ in \in {READ_A0, READ_A1, READ_A2, READ_A3}) =>
          /\ smp.chs = {OpChannel(in)}
          /\ smp.n = 1
          /\ IsDecimalOf(resp, smp.sum)
    /\ (pc = "stop" /\ in \in {READ_V, READ_V1, READ_V2, READ_V3}) =>
          /\ smp.chs = {OpChannel(in)}
          /\ smp.n = NB_ANALOG_RD
          /\ IsDecimalOf(resp, computeAvgVoltage(gVoltageHist, gHistCounter, OpChannel(in)))
C10_Witness ==
    /\ pc = "stop"
    /\ in = READ_A2
    /\ smp = [chs |-> {2}, n |-> 1, sum |-> AdcMax]
    /\ resp = <<49, 48, 50, 51>>

\* C11: an averaged read of channel c that finds the counter at n reports
\* floor((slot 0 + ... + slot n) / (n + 1)) of c's history when n < 10, and
\* floor((slot 0 + ... + slot 9) / 10) when n >= 10, the slots taken after the write.
C11_AverageOverCount ==
    \A j \in Channels :
        (pc = "stop" /\ in = AvgOps[j + 1]) =>
            LET n == gHistCounter - 1
            IN  IF n < VOLTAGE_HISTORY_NUM
                    THEN IsDecimalOf(resp, HistSum(gVoltageHist, j, 0, n) \div (n + 1))
                    ELSE IsDecimalOf(resp, HistSum(gVoltageHist, j, 0, VOLTAGE_HISTORY_NUM - 1)
                                               \div VOLTAGE_HISTORY_NUM)

\* C12: an averaged read of channel c that finds the counter at n puts its scaled
\* value in slot n mod 10 of c, leaves every other slot, and makes the counter n + 1;
\* no other step changes the counter, which is always the number of averaged reads
\* made on all channels together.
C12_SharedCounter ==
    [][/\ gHistCounter' = avgReads'[0] + avgReads'[1] + avgReads'[2] + avgReads'[3]
       /\ (pc = "switch" /\ in \in AvgOpSet) =>
             LET c == OpChannel(in)
                 n == gHistCounter
             IN  /\ gHistCounter' = n + 1
                 /\ \E sum0 \in UninitValues :
                        gVoltageHist'[c][n % VOLTAGE_HISTORY_NUM] = ScaleSum(sum0 + smp'.sum)
                 /\ \A j \in Channels, i \in Slots :
                        (j # c \/ i # n % VOLTAGE_HISTORY_NUM) =>
                            gVoltageHist'[j][i] = gVoltageHist[j][i]
       /\ ~(pc = "switch" /\ in \in AvgOpSet) => gHistCounter' = gHistCounter]_vars
C12_Witness ==
    /\ pc = "stop"
    /\ in = READ_V
    /\ gHistCounter = VOLTAGE_HISTORY_NUM + 1
    /\ avgReads[0] = VOLTAGE_HISTORY_NUM
    /\ avgReads[1] = 1
    /\ gVoltageHist[0][0] = ScaleSum(smp.sum)
    /\ gVoltageHist[0][1] # gVoltageHist[0][0]
    /\ gVoltageHist[1][VOLTAGE_HISTORY_NUM - 1] # CHARGE_THRESHOLD

\* C13: the value an averaged read puts in the history is
\* floor(floor((s1 + ... + s204) / 204) * 2410 / 1023), s1..s204 being its samples:
\* the accumulator starts at zero on every call.
C13_SamplesDetermineValue ==
    \A j \in Channels :
        (pc = "stop" /\ in = AvgOps[j + 1]) =>
            gVoltageHist[j][(gHistCounter - 1) % VOLTAGE_HISTORY_NUM]
                = ((smp.sum \div NB_ANALOG_RD) * CAN_REF) \div CAN_BITSIZE

\* q is a whole response to the byte op: nothing for a byte outside the table, else
\* the payload of the command and the terminator
IsResponseOf(q, op) ==
    CASE op \notin Opcodes -> q = <<>>
      [] op = LED_TOGGLE -> Len(q) = 2 /\ q[1] \in {0, 1} /\ q[2] = STOP_BYTE
      [] op \in ZeroOps -> q = <<STOP_BYTE>>
      [] op \in RawOpSet \cup AvgOpSet ->
            /\ Len(q) >= 2
            /\ Last(q) = STOP_BYTE
            /\ \A i \in 1..(Len(q) - 1) : IsDigit(q[i])

\* C14: the receive buffer loses bytes one at a time, the oldest first, and only once
\* the action and the terminator of the byte read before are done; the output is the
\* whole responses of the bytes read, one after the other in the order read.
C14_OneCommandAtATime ==
    [][/\ rx' # rx =>
             \/ \E b \in ScriptBytes : rx' = Append(rx, b)
             \/ /\ rx # <<>>
                /\ rx' = Tail(rx)
                /\ in' = Head(rx)
                /\ pc = "idle"
                /\ in # NoByte => IsResponseOf(resp, in)
       /\ \A i \in DOMAIN trace' :
             /\ trace'[i].mark = IF i = 1 THEN 0
                                 ELSE trace'[i - 1].mark + Len(Response(i - 1)')
             /\ Completed(i)' => IsResponseOf(Response(i)', trace'[i].op)]_vars
C14_Witness ==
    /\ Ops = <<READ_A0, LED_TOGGLE>>
    /\ pc = "stop"
    /\ Len(rx) = 1
    /\ tx = <<49, 48, 50, 51, STOP_BYTE, 0>>

\* C15: while loop() is at its top and the receive buffer is empty, nothing is
\* written and pins, histories, counter and the position of loop() stay as they
\* are, whatever the host adds to the buffer; a cycle that finds input removes one
\* byte from the buffer, the oldest, and no more.
C15_IdleCycle ==
    [][/\ (pc = "idle" /\ rx = <<>>) =>
             /\ UNCHANGED <<pin, gVoltageHist, gHistCounter, tx, resp, in, pc>>
             /\ \E b \in ScriptBytes : rx' = <<b>>
       /\ (pc = "idle" /\ rx # <<>> /\ pc' # pc) =>
             /\ in' = Head(rx)
             /\ rx' = Tail(rx)
             /\ Len(rx') = Len(rx) - 1
             /\ UNCHANGED <<pin, gVoltageHist, gHistCounter, tx>>]_vars
C15_Witness ==
    /\ pc = "idle"
    /\ rx = <<>>
    /\ Ops = <<READ_V3, MODE_CHARGE>>
    /\ gHistCounter = 1
    /\ Len(tx) > 2

RECURSIVE LogicalAfter(_)
\* the logical line states the commands ask for: off, off, on at startup, then as the
\* first k bytes read say
LogicalAfter(k) ==
    IF k = 0 THEN [charge |-> FALSE, discharge |-> FALSE, led |-> TRUE]
    ELSE LET l == LogicalAfter(k - 1)
             op == trace[k].op
         IN  CASE op = LED_0 -> [l EXCEPT !.led = FALSE]
               [] op = LED_1 -> [l EXCEPT !.led = TRUE]
               [] op = LED_TOGGLE -> [l EXCEPT !.led = ~l.led]
               [] op = PIN_DISCHARGE_0 -> [l EXCEPT !.discharge = FALSE]
               [] op = PIN_DISCHARGE_1 -> [l EXCEPT !.discharge = TRUE]
               [] op = PIN_CHARGE_0 -> [l EXCEPT !.charge = FALSE]
               [] op = PIN_CHARGE_1 -> [l EXCEPT !.charge = TRUE]
               [] op = MODE_IDLE -> [l EXCEPT !.charge = FALSE, !.discharge = FALSE]
               [] op = MODE_CHARGE -> [l EXCEPT !.charge = TRUE, !.discharge = FALSE]
               [] op = MODE_DISCHARGE -> [l EXCEPT !.charge = FALSE, !.discharge = TRUE]
               [] OTHER -> l

\* C16: outside the two line writes of a mode command, the charge pin is at the
\* opposite of the logical charge state, and the discharge and led pins are at their
\* logical states; the byte LED_TOGGLE answers is the led's logical state, not inverted.
C16_ChargeActiveLow ==
    /\ pc # "mode2" =>
          LET l == LogicalAfter(IF pc = "switch" THEN Len(trace) - 1 ELSE Len(trace))
          IN  /\ pin[PIN_CHARGE] = ~l.charge
              /\ pin[PIN_DISCHARGE] = l.discharge
              /\ pin[PIN_LED] = l.led
    /\ \A i \in DOMAIN trace :
          (trace[i].op = LED_TOGGLE /\ ActionDone(i)) =>
              Response(i)[1] = BoolByte(LogicalAfter(i).led)
C16_Witness ==
    /\ Ops = <<PIN_CHARGE_1, PIN_DISCHARGE_1, LED_TOGGLE>>
    /\ pc = "idle"
    /\ ~pin[PIN_CHARGE] /\ pin[PIN_DISCHARGE] /\ ~pin[PIN_LED]
    /\ tx = <<STOP_BYTE, STOP_BYTE, 0, STOP_BYTE>>

\* C17: a byte in the receive buffer is eventually read and loop() back at its top
\* with the buffer empty; an averaged read takes 204 samples, no more and no fewer,
\* and ends; every byte of the table read is eventually answered with the terminator;
\* a byte outside the table read is followed by loop() at its top again.
C17_EveryByteHandled ==
    /\ [](pc = "sample" => (smp.n = loc.i /\ loc.i <= NB_ANALOG_RD))
    /\ []((pc = "stop" /\ in \in AvgOpSet) => smp.n = NB_ANALOG_RD)
    /\ (rx # <<>>) ~> (rx = <<>> /\ pc = "idle")
    /\ (pc = "switch" /\ in \in AvgOpSet) ~> (pc = "stop" /\ smp.n = NB_ANALOG_RD)
    /\ (pc = "switch" /\ in \in Opcodes) ~>
           (pc = "idle" /\ Len(resp) > 0 /\ resp[Len(resp)] = STOP_BYTE)
    /\ (pc = "switch" /\ in \notin Opcodes) ~> (pc = "idle" /\ resp = <<>>)
C17_Witness ==
    /\ pc = "idle"
    /\ in = READ_V2
    /\ smp.n = NB_ANALOG_RD
    /\ Len(resp) > 1
    /\ Last(resp) = STOP_BYTE
    /\ rx = <<>>
    /\ ~LedOn

\* C18: of the steps loop() takes for one byte, those of a raw read and of PING leave
\* pins, histories and counter alone; those of a led, line or mode command leave the
\* histories and the counter alone; those of an averaged read of channel c leave the
\* pins and the other channels alone, and change one slot of c and the counter.
C18_CommandFrames ==
    [][(pc' # pc) =>
          /\ in' \in RawOpSet \cup {PING} => UNCHANGED <<pin, gVoltageHist, gHistCounter>>
          /\ in' \in (ZeroOps \ {PING}) \cup {LED_TOGGLE} =>
                UNCHANGED <<gVoltageHist, gHistCounter>>
          /\ in' \in AvgOpSet =>
                /\ pin' = pin
                /\ \A j \in Channels \ {OpChannel(in')} : gVoltageHist'[j] = gVoltageHist[j]
                /\ IF pc = "switch"
                       THEN /\ gHistCounter' = gHistCounter + 1
                            /\ Cardinality({i \in Slots :
                                   gVoltageHist'[OpChannel(in)][i]
                                       # gVoltageHist[OpChannel(in)][i]}) = 1
                       ELSE UNCHANGED <<gVoltageHist, gHistCounter>>]_vars
C18_Witness ==
    /\ pc = "stop"
    /\ in = READ_V1
    /\ gHistCounter = 1
    /\ gVoltageHist[1][0] # CHARGE_THRESHOLD
    /\ \A j \in Channels, i \in Slots : (j # 1 \/ i # 0) => gVoltageHist[j][i] = CHARGE_THRESHOLD
    /\ ChargeOn /\ ~DischargeOn /\ ~LedOn

\* where the response to the i-th byte read ends in the output
ResponseEnd(i) == IF i < Len(trace) THEN trace[i + 1].mark ELSE Len(tx)

\* C19: every byte written is 0 or 1 (the payload of LED_TOGGLE), an ASCII digit (the
\* payload of a read) or 0xFF, and 0xFF stands at the end of the response to each
\* byte of the table read and nowhere else: as many 0xFF as bytes of the table
\* handled, and the output cut after each 0xFF falls into the responses.
C19_TerminatorUnambiguous ==
    /\ \A k \in DOMAIN tx : tx[k] \in {0, 1, STOP_BYTE} \/ IsDigit(tx[k])
    /\ \A i \in DOMAIN trace :
          LET payload == SubSeq(tx, trace[i].mark + 1,
                                ResponseEnd(i) - (IF Completed(i) /\ trace[i].op \in Opcodes
                                                      THEN 1 ELSE 0))
          IN  /\ trace[i].op = LED_TOGGLE => \A k \in DOMAIN payload : payload[k] \in {0, 1}
              /\ trace[i].op \in RawOpSet \cup AvgOpSet =>
                    \A k \in DOMAIN payload : IsDigit(payload[k])
              /\ trace[i].op \in ZeroOps => payload = <<>>
    /\ {k \in DOMAIN tx : tx[k] = STOP_BYTE}
          = {ResponseEnd(i) : i \in {n \in DOMAIN trace :
                                        Completed(n) /\ trace[n].op \in Opcodes}}
    /\ pc = "idle" =>
          Cardinality({k \in DOMAIN tx : tx[k] = STOP_BYTE})
              = Cardinality({i \in DOMAIN trace : trace[i].op \in Opcodes})
C19_Witness ==
    /\ Ops = <<LED_TOGGLE, 153, READ_A0>>
    /\ pc = "idle"
    /\ tx = <<0, STOP_BYTE, 48, STOP_BYTE>>

\* C20: an averaged read uses a channel index in 0..3, writes the slot
\* (counter before the read) mod 10, which is in 0..9, and sums slots 0 up to a last
\* one in 0..9: up to the counter after the increment while that is under 10, up to
\* slot 9 after.
C20_IndicesInRange ==
    hidx # NoAccess =>
        /\ hidx.ch \in Channels
        /\ hidx.ch = OpChannel(in)
        /\ hidx.slot \in Slots
        /\ hidx.slot = (gHistCounter - 1) % VOLTAGE_HISTORY_NUM
        /\ hidx.last \in Slots
        /\ hidx.last = IF gHistCounter < VOLTAGE_HISTORY_NUM
                           THEN gHistCounter ELSE VOLTAGE_HISTORY_NUM - 1
C20_Witness ==
    /\ pc = "stop"
    /\ gHistCounter = VOLTAGE_HISTORY_NUM - 1
    /\ hidx = [ch |-> 1, slot |-> VOLTAGE_HISTORY_NUM - 2, last |-> VOLTAGE_HISTORY_NUM - 1]
    /\ gVoltageHist[1][VOLTAGE_HISTORY_NUM - 1] = CHARGE_THRESHOLD

====
